---- MODULE Spec2Model ----
(***************************************************************************)
(* Model of the HR survey application (src/app.py): the routes /submit,    *)
(* /admin, /report, /analyze_aggregate and /analyze_response over the      *)
(* survey_responses table and the SURVEY_DATA category set.                *)
(*                                                                         *)
(* Conventions                                                             *)
(*   - a Python str is a sequence of one-character strings;                *)
(*   - a Python dict is a sequence of <<key, value>> pairs in insertion    *)
(*     order;                                                              *)
(*   - an answer value is [isint, n, s]: the int n or the str s;           *)
(*   - a float that went through round(x, 2) is kept as an integer number  *)
(*     of hundredths (5.0 is 500); an unrounded float is the exact         *)
(*     fraction <<numerator, denominator>>.  For at most four values per   *)
(*     category and three categories this agrees with IEEE doubles.        *)
(*   - int(str) is modelled for an optional sign followed by digits, the   *)
(*     only numeric strings the forms below carry;                         *)
(*   - the row id is the row's position in the table; submitted_at only    *)
(*     orders /admin's rows (newest first) and is not kept;                *)
(*   - /report and /analyze_aggregate SELECT without ORDER BY: the rows    *)
(*     are scanned in table order, which their averages do not depend on.  *)
(***************************************************************************)
EXTENDS Integers, Sequences, FiniteSets, TLC

VARIABLES SURVEY_DATA, survey_responses, response

vars == <<SURVEY_DATA, survey_responses, response>>

----------------------------------------------------------------------------
(* Bounds of the model *)

MaxScoreRows == 3
MaxProfileRows == 1
MaxKeyRows == 1

----------------------------------------------------------------------------
(* Python built-ins used by the handlers *)

Digits == {"0", "1", "2", "3", "4", "5", "6", "7", "8", "9"}

DigitVal(c) ==
    CASE c = "0" -> 0 [] c = "1" -> 1 [] c = "2" -> 2 [] c = "3" -> 3
      [] c = "4" -> 4 [] c = "5" -> 5 [] c = "6" -> 6 [] c = "7" -> 7
      [] c = "8" -> 8 [] c = "9" -> 9

RECURSIVE digits_value(_)
digits_value(s) ==
    IF Len(s) = 0 THEN 0
    ELSE 10 * digits_value(SubSeq(s, 1, Len(s) - 1)) + DigitVal(s[Len(s)])

\* int(str): an optional sign followed by decimal digits; anything else is a
\* ValueError (ok = FALSE).
int(s) ==
    LET signed == Len(s) > 0 /\ s[1] \in {"-", "+"}
        body == IF signed THEN Tail(s) ELSE s
        isnum == Len(body) > 0 /\ \A i \in 1..Len(body) : body[i] \in Digits
    IN  IF isnum
        THEN [ok |-> TRUE,
              n |-> IF s[1] = "-" THEN 0 - digits_value(body)
                    ELSE digits_value(body)]
        ELSE [ok |-> FALSE, n |-> 0]

\* '_' in key
has_underscore(key) == \E i \in 1..Len(key) : key[i] = "_"

\* key.rsplit('_', 1) for a key that contains '_': <<before, after>> the last
\* underscore.
rsplit(key) ==
    LET last == CHOOSE i \in 1..Len(key) :
                    /\ key[i] = "_"
                    /\ \A j \in (i + 1)..Len(key) : key[j] # "_"
    IN  <<SubSeq(key, 1, last - 1), SubSeq(key, last + 1, Len(key))>>

starts_at(s, i, old) ==
    /\ i + Len(old) - 1 <= Len(s)
    /\ \A j \in 1..Len(old) : s[i + j - 1] = old[j]

\* s.replace(old, new): every non-overlapping occurrence, left to right.
RECURSIVE replace_from(_, _, _, _)
replace_from(s, i, old, new) ==
    IF i > Len(s) THEN <<>>
    ELSE IF starts_at(s, i, old)
         THEN new \o replace_from(s, i + Len(old), old, new)
         ELSE <<s[i]>> \o replace_from(s, i + 1, old, new)

replace(s, old, new) == replace_from(s, 1, old, new)

AND == <<" ", "a", "n", "d", " ">>
AMP == <<" ", "&", " ">>

\* round(n / d, 2) in hundredths, d > 0: round half to even.
round2(n, d) ==
    LET q == (100 * n) \div d
        r == (100 * n) % d
    IN  IF 2 * r < d THEN q
        ELSE IF 2 * r > d THEN q + 1
        ELSE IF q % 2 = 0 THEN q ELSE q + 1

RECURSIVE sum(_)
sum(scores) == IF Len(scores) = 0 THEN 0 ELSE Head(scores) + sum(Tail(scores))

\* dict helpers over sequences of <<key, value>> pairs
has_key(d, k) == \E i \in 1..Len(d) : d[i][1] = k

index_of(d, k) == CHOOSE i \in 1..Len(d) : d[i][1] = k

get(d, k) == d[index_of(d, k)][2]

\* d[k].append(v)
append_to(d, k, v) ==
    [i \in 1..Len(d) |->
        IF d[i][1] = k THEN <<d[i][1], Append(d[i][2], v)>> ELSE d[i]]

\* {k: [] for k in SURVEY_DATA.keys()}
empty_lists(sd) == [i \in 1..Len(sd) |-> <<sd[i][1], <<>>>>]

\* sorted(items, key=lambda x: x[1], reverse=True): stable, so items with equal
\* scores keep their original relative order.
\* insert_desc placing an item before the items of equal score
RECURSIVE insert_desc_unstable(_, _)
insert_desc_unstable(sorted, item) ==
    IF Len(sorted) = 0 THEN <<item>>
    ELSE IF Head(sorted)[2] > item[2]
         THEN <<Head(sorted)>> \o insert_desc_unstable(Tail(sorted), item)
         ELSE <<item>> \o sorted

RECURSIVE insert_desc(_, _)
insert_desc(sorted, item) ==
    IF Len(sorted) = 0 THEN <<item>>
    ELSE IF Head(sorted)[2] >= item[2]
         THEN <<Head(sorted)>> \o insert_desc(Tail(sorted), item)
         ELSE <<item>> \o sorted

RECURSIVE sorted_desc_from(_, _, _)
sorted_desc_from(items, i, acc) ==
    IF i > Len(items) THEN acc
    ELSE sorted_desc_from(items, i + 1, insert_desc(acc, items[i]))

sorted_desc(items) == sorted_desc_from(items, 1, <<>>)

\* {k: v for k, v in d.items() if v > 0}
RECURSIVE positive_items(_)
positive_items(d) ==
    IF Len(d) = 0 THEN <<>>
    ELSE IF Head(d)[2] > 0 THEN <<Head(d)>> \o positive_items(Tail(d))
         ELSE positive_items(Tail(d))

----------------------------------------------------------------------------
(* Literals of the handlers *)

ANONYMOUS == <<"A", "n", "o", "n", "y", "m", "o", "u", "s">>
ALL_CATEGORIES ==
    <<"A", "l", "l", " ", "C", "a", "t", "e", "g", "o", "r", "i", "e", "s">>
BALANCED_PROFILE ==
    <<"B", "a", "l", "a", "n", "c", "e", "d", " ", "P", "r", "o", "f", "i", "l", "e">>
NONE == <<"N", "o", "n", "e">>
NA == <<"N", "/", "A">>
ADMIN_KEY == "mysecretadminpassword"

Absent == [present |-> FALSE, s |-> <<>>]
Field(s) == [present |-> TRUE, s |-> s]

----------------------------------------------------------------------------
(* /submit *)

\* try: int(value) / except ValueError: value
processed_value(value) ==
    IF int(value).ok THEN [isint |-> TRUE, n |-> int(value).n, s |-> <<>>]
    ELSE [isint |-> FALSE, n |-> 0, s |-> value]

processed_answers(fields) ==
    [i \in 1..Len(fields) |-> <<fields[i][1], processed_value(fields[i][2])>>]

\* form_data.pop('respondent_name', 'Anonymous') or 'Anonymous'
respondent_name(form) ==
    IF form.respondent_name.present /\ Len(form.respondent_name.s) > 0
    THEN form.respondent_name.s
    ELSE ANONYMOUS

\* The INSERT commits: the table gains one row, the page is rendered again.
submit(form) ==
    /\ survey_responses' = Append(survey_responses,
            [id |-> Len(survey_responses) + 1,
             respondent_name |-> respondent_name(form),
             answers |-> processed_answers(form.fields)])
    /\ response' = [route |-> "submit", status |-> 200, success |-> TRUE]
    /\ UNCHANGED SURVEY_DATA

\* The connection or the INSERT raises: "Database Error: ..." is returned and
\* nothing is stored.
submit_database_error ==
    /\ response' = [route |-> "submit", status |-> 200, success |-> FALSE]
    /\ UNCHANGED <<SURVEY_DATA, survey_responses>>

----------------------------------------------------------------------------
(* /admin *)

\* One iteration of the loop over answers.items().
admin_collect(cat_totals, key, val) ==
    IF val.isint /\ has_underscore(key)
    THEN LET raw_cat == rsplit(key)[1]
         IN  IF has_key(cat_totals, raw_cat)
             THEN append_to(cat_totals, raw_cat, val.n)
             ELSE IF has_key(cat_totals, replace(raw_cat, AND, AMP))
                  THEN append_to(cat_totals, replace(raw_cat, AND, AMP), val.n)
                  ELSE cat_totals
    ELSE cat_totals

RECURSIVE admin_scan(_, _, _)
admin_scan(answers, i, cat_totals) ==
    IF i > Len(answers) THEN cat_totals
    ELSE admin_scan(answers, i + 1,
                    admin_collect(cat_totals, answers[i][1], answers[i][2]))

admin_cat_totals(answers) == admin_scan(answers, 1, empty_lists(SURVEY_DATA))

admin_cat_averages(cat_totals) ==
    [i \in 1..Len(cat_totals) |->
        LET scores == cat_totals[i][2]
        IN  <<cat_totals[i][1],
              IF Len(scores) > 0 THEN round2(sum(scores), Len(scores)) ELSE 0>>]

\* sum_of_category_averages as an exact fraction, over cat_totals[1..i]
RECURSIVE admin_sum_of_category_averages(_, _)
admin_sum_of_category_averages(cat_totals, i) ==
    IF i = 0 THEN <<0, 1>>
    ELSE LET acc == admin_sum_of_category_averages(cat_totals, i - 1)
             scores == cat_totals[i][2]
         IN  IF Len(scores) > 0
             THEN <<acc[1] * Len(scores) + sum(scores) * acc[2],
                    acc[2] * Len(scores)>>
             ELSE acc

admin_valid_categories_count(cat_totals) ==
    Cardinality({i \in 1..Len(cat_totals) : Len(cat_totals[i][2]) > 0})

admin_overall(cat_totals) ==
    LET total == admin_sum_of_category_averages(cat_totals, Len(cat_totals))
        valid_categories_count == admin_valid_categories_count(cat_totals)
    IN  IF valid_categories_count > 0
        THEN round2(total[1], total[2] * valid_categories_count)
        ELSE 0

\* admin_strength_weakness without the flat-profile branch
admin_strength_weakness_no_flat(cat_averages) ==
    LET active_cats == positive_items(cat_averages)
    IN  IF Len(active_cats) > 0
        THEN LET sorted_cats == sorted_desc(active_cats)
             IN  <<sorted_cats[1], sorted_cats[Len(sorted_cats)]>>
        ELSE <<(<<NA, 0>>), (<<NA, 0>>)>>

\* <<strength, weakness>>
admin_strength_weakness(cat_averages) ==
    LET active_cats == positive_items(cat_averages)
    IN  IF Len(active_cats) > 0
        THEN LET sorted_cats == sorted_desc(active_cats)
                 highest_score == sorted_cats[1][2]
                 lowest_score == sorted_cats[Len(sorted_cats)][2]
             IN  IF highest_score = lowest_score
                 THEN IF highest_score = 500
                      THEN <<(<<ALL_CATEGORIES, 500>>), (<<NONE, 0>>)>>
                      ELSE IF highest_score = 100
                           THEN <<(<<NONE, 0>>), (<<ALL_CATEGORIES, 100>>)>>
                           ELSE <<(<<BALANCED_PROFILE, highest_score>>),
                                  (<<BALANCED_PROFILE, lowest_score>>)>>
                 ELSE <<sorted_cats[1], sorted_cats[Len(sorted_cats)]>>
        ELSE <<(<<NA, 0>>), (<<NA, 0>>)>>

admin_stats(answers) ==
    LET cat_totals == admin_cat_totals(answers)
        cat_averages == admin_cat_averages(cat_totals)
        sw == admin_strength_weakness(cat_averages)
    IN  [averages |-> cat_averages,
         strength |-> sw[1],
         weakness |-> sw[2],
         overall |-> admin_overall(cat_totals),
         categories_list |-> [i \in 1..Len(cat_averages) |-> cat_averages[i][1]],
         scores_list |-> [i \in 1..Len(cat_averages) |-> cat_averages[i][2]]]

\* rows come ORDER BY submitted_at DESC: newest first
admin_processed_rows ==
    [i \in 1..Len(survey_responses) |->
        LET row == survey_responses[Len(survey_responses) + 1 - i]
        IN  [id |-> row.id,
             answers |-> row.answers,
             cat_totals |-> admin_cat_totals(row.answers),
             stats |-> admin_stats(row.answers)]]

admin(key) ==
    /\ response' = IF key # ADMIN_KEY
                   THEN [route |-> "admin", status |-> 200, denied |-> TRUE]
                   ELSE [route |-> "admin", status |-> 200, denied |-> FALSE,
                         responses |-> admin_processed_rows]
    /\ UNCHANGED <<SURVEY_DATA, survey_responses>>

----------------------------------------------------------------------------
(* /report *)

\* report_collect trying the normalized label before the exact one
report_collect_normalized_first(category_scores, key, value) ==
    IF ~value.isint THEN category_scores
    ELSE IF has_underscore(key)
         THEN LET raw_cat == rsplit(key)[1]
              IN  IF has_key(category_scores, replace(raw_cat, AND, AMP))
                  THEN append_to(category_scores,
                                 replace(raw_cat, AND, AMP), value.n)
                  ELSE IF has_key(category_scores, raw_cat)
                       THEN append_to(category_scores, raw_cat, value.n)
                       ELSE category_scores
         ELSE category_scores

\* One iteration of the loop over answers.items().
report_collect(category_scores, key, value) ==
    IF ~value.isint THEN category_scores
    ELSE IF has_underscore(key)
         THEN LET raw_cat == rsplit(key)[1]
              IN  IF has_key(category_scores, raw_cat)
                  THEN append_to(category_scores, raw_cat, value.n)
                  ELSE IF has_key(category_scores, replace(raw_cat, AND, AMP))
                       THEN append_to(category_scores,
                                      replace(raw_cat, AND, AMP), value.n)
                       ELSE category_scores
         ELSE category_scores

RECURSIVE report_scan_answers(_, _, _)
report_scan_answers(answers, i, category_scores) ==
    IF i > Len(answers) THEN category_scores
    ELSE report_scan_answers(answers, i + 1,
            report_collect(category_scores, answers[i][1], answers[i][2]))

RECURSIVE report_scan_rows(_, _, _)
report_scan_rows(rows, r, category_scores) ==
    IF r > Len(rows) THEN category_scores
    ELSE report_scan_rows(rows, r + 1,
            report_scan_answers(rows[r].answers, 1, category_scores))

report_category_scores(rows) ==
    report_scan_rows(rows, 1, empty_lists(SURVEY_DATA))

report_final_averages(category_scores) ==
    [i \in 1..Len(category_scores) |->
        LET scores == category_scores[i][2]
        IN  <<category_scores[i][1],
              IF Len(scores) > 0 THEN round2(sum(scores), Len(scores)) ELSE 0>>]

RECURSIVE report_sum_of_category_averages(_, _)
report_sum_of_category_averages(category_scores, i) ==
    IF i = 0 THEN <<0, 1>>
    ELSE LET acc == report_sum_of_category_averages(category_scores, i - 1)
             scores == category_scores[i][2]
         IN  IF Len(scores) > 0
             THEN <<acc[1] * Len(scores) + sum(scores) * acc[2],
                    acc[2] * Len(scores)>>
             ELSE acc

report_valid_categories_count(category_scores) ==
    Cardinality({i \in 1..Len(category_scores) : Len(category_scores[i][2]) > 0})

\* report_overall_score weighted by question: the mean of all collected values
report_overall_score_by_question(category_scores) ==
    LET values == [i \in 1..Len(category_scores) |->
                        sum(category_scores[i][2])]
        counts == [i \in 1..Len(category_scores) |->
                        Len(category_scores[i][2])]
    IN  IF sum(counts) > 0 THEN round2(sum(values), sum(counts)) ELSE 0

report_overall_score(category_scores) ==
    LET total == report_sum_of_category_averages(category_scores,
                                                 Len(category_scores))
        valid_categories_count == report_valid_categories_count(category_scores)
    IN  IF valid_categories_count > 0
        THEN round2(total[1], total[2] * valid_categories_count)
        ELSE 0

\* <<strongest, weakest>>
report_strongest_weakest(final_averages) ==
    LET active_cats == positive_items(final_averages)
        sorted_cats == sorted_desc(active_cats)
    IN  IF Len(sorted_cats) > 0
        THEN <<sorted_cats[1], sorted_cats[Len(sorted_cats)]>>
        ELSE <<(<<NONE, 0>>), (<<NONE, 0>>)>>

report(key) ==
    /\ response' =
        IF key # ADMIN_KEY
        THEN [route |-> "report", status |-> 200, denied |-> TRUE,
              nodata |-> FALSE]
        ELSE IF Len(survey_responses) = 0
        THEN [route |-> "report", status |-> 200, denied |-> FALSE,
              nodata |-> TRUE]
        ELSE LET category_scores == report_category_scores(survey_responses)
                 final_averages == report_final_averages(category_scores)
                 sw == report_strongest_weakest(final_averages)
             IN  [route |-> "report", status |-> 200, denied |-> FALSE,
                  nodata |-> FALSE,
                  category_scores |-> category_scores,
                  averages |-> final_averages,
                  total |-> Len(survey_responses),
                  overall |-> report_overall_score(category_scores),
                  strongest |-> sw[1],
                  weakest |-> sw[2]]
    /\ UNCHANGED <<SURVEY_DATA, survey_responses>>

----------------------------------------------------------------------------
(* /analyze_aggregate *)

\* aggregate_collect without the 'and' -> '&' normalization
aggregate_collect_unnormalized(category_scores, key, value) ==
    IF ~value.isint THEN category_scores
    ELSE IF has_underscore(key)
         THEN LET raw_cat == rsplit(key)[1]
              IN  IF has_key(category_scores, raw_cat)
                  THEN append_to(category_scores, raw_cat, value.n)
                  ELSE category_scores
         ELSE category_scores

\* One iteration of the loop over answers.items().
aggregate_collect(category_scores, key, value) ==
    IF ~value.isint THEN category_scores
    ELSE IF has_underscore(key)
         THEN LET raw_cat == rsplit(key)[1]
              IN  IF has_key(category_scores, raw_cat)
                  THEN append_to(category_scores, raw_cat, value.n)
                  ELSE IF has_key(category_scores, replace(raw_cat, AND, AMP))
                       THEN append_to(category_scores,
                                      replace(raw_cat, AND, AMP), value.n)
                       ELSE category_scores
         ELSE category_scores

RECURSIVE aggregate_scan_answers(_, _, _)
aggregate_scan_answers(answers, i, category_scores) ==
    IF i > Len(answers) THEN category_scores
    ELSE aggregate_scan_answers(answers, i + 1,
            aggregate_collect(category_scores, answers[i][1], answers[i][2]))

RECURSIVE aggregate_scan_rows(_, _, _)
aggregate_scan_rows(rows, r, category_scores) ==
    IF r > Len(rows) THEN category_scores
    ELSE aggregate_scan_rows(rows, r + 1,
            aggregate_scan_answers(rows[r].answers, 1, category_scores))

aggregate_category_scores(rows) ==
    aggregate_scan_rows(rows, 1, empty_lists(SURVEY_DATA))

aggregate_final_averages(category_scores) ==
    [i \in 1..Len(category_scores) |->
        LET scores == category_scores[i][2]
        IN  <<category_scores[i][1],
              IF Len(scores) > 0 THEN round2(sum(scores), Len(scores)) ELSE 0>>]

\* generated is the outcome of client.models.generate_content: TRUE when it
\* returns, FALSE when it raises.
analyze_aggregate(generated) ==
    /\ response' =
        IF Len(survey_responses) = 0
        THEN [route |-> "analyze_aggregate", status |-> 404]
        ELSE LET category_scores == aggregate_category_scores(survey_responses)
                 final_averages == aggregate_final_averages(category_scores)
             IN  [route |-> "analyze_aggregate",
                  status |-> IF generated THEN 200 ELSE 500,
                  category_scores |-> category_scores,
                  averages |-> final_averages,
                  \* one "cat: score/5.0" line per category
                  prompt_data |-> final_averages]
    /\ UNCHANGED <<SURVEY_DATA, survey_responses>>

----------------------------------------------------------------------------
(* /analyze_response/<int:response_id> *)

\* list[index] of Python: a negative index counts from the end; ok = FALSE is
\* an IndexError.
list_item(list, index) ==
    IF 0 <= index /\ index < Len(list)
    THEN [ok |-> TRUE, v |-> list[index + 1]]
    ELSE IF index < 0 /\ 0 - index <= Len(list)
         THEN [ok |-> TRUE, v |-> list[Len(list) + index + 1]]
         ELSE [ok |-> FALSE, v |-> ""]

\* One iteration of the loop over answers.items(); st is
\* [raised, prompt_data].  int(parts[1]) is outside every try block: its
\* ValueError leaves the handler.
response_collect(st, key, val) ==
    IF has_underscore(key) /\ val.isint
    THEN LET parts == rsplit(key)
             raw_cat == parts[1]
         IN  IF ~int(parts[2]).ok
             THEN [st EXCEPT !.raised = TRUE]
             ELSE LET index == int(parts[2]).n - 1
                      category ==
                          IF has_key(SURVEY_DATA, raw_cat) THEN raw_cat
                          ELSE replace(raw_cat, AND, AMP)
                  IN  IF ~has_key(SURVEY_DATA, category) THEN st
                      ELSE LET item == list_item(get(SURVEY_DATA, category),
                                                 index)
                           IN  IF item.ok
                               THEN [st EXCEPT !.prompt_data =
                                        Append(@, [category |-> category,
                                                   question_text |-> item.v,
                                                   val |-> val.n])]
                               ELSE st
    ELSE st

RECURSIVE response_scan(_, _, _)
response_scan(answers, i, st) ==
    IF i > Len(answers) \/ st.raised THEN st
    ELSE response_scan(answers, i + 1,
                       response_collect(st, answers[i][1], answers[i][2]))

analyze_response(response_id, generated) ==
    /\ response' =
        IF response_id \notin 1..Len(survey_responses)
        THEN [route |-> "analyze_response", status |-> 404,
              response_id |-> response_id]
        ELSE LET row == survey_responses[response_id]
                 st == response_scan(row.answers, 1,
                                     [raised |-> FALSE, prompt_data |-> <<>>])
             IN  [route |-> "analyze_response",
                  response_id |-> response_id,
                  raised |-> st.raised,
                  status |-> IF st.raised \/ ~generated THEN 500 ELSE 200,
                  prompt_data |-> st.prompt_data]
    /\ UNCHANGED <<SURVEY_DATA, survey_responses>>

----------------------------------------------------------------------------
(* Category sets (final_hr_questions.json) and survey forms *)

A == <<"A">>
B == <<"B">>
C == <<"C">>
T == <<"T">>
C_AMP_D == <<"C", " ", "&", " ", "D">>
C_AND_D == <<"C", " ", "a", "n", "d", " ", "D">>
G_AMP_D == <<"G", " ", "&", " ", "D">>
G_AND_D == <<"G", " ", "a", "n", "d", " ", "D">>

ScoreCategorySets ==
    { <<(<<A, <<"A?1">>>>), (<<B, <<"B?1">>>>), (<<C_AMP_D, <<"C?1">>>>)>> }

ProfileCategorySets ==
    { <<(<<A, <<"A?1">>>>), (<<B, <<"B?1">>>>), (<<C, <<"C?1">>>>)>>,
      <<(<<C, <<"C?1">>>>), (<<A, <<"A?1">>>>), (<<B, <<"B?1">>>>)>> }

KeyCategorySets ==
    { <<(<<G_AMP_D, <<"G?1", "G?2">>>>), (<<T, <<"T?1", "T?2">>>>)>>,
      <<(<<G_AND_D, <<"g?1", "g?2">>>>), (<<G_AMP_D, <<"G?1", "G?2">>>>)>> }

\* A slot of a form: the alternatives for one field, each a sequence of zero
\* or one <<key, value>> pair.
Optional(pairs) == {<<>>} \cup {<<p>> : p \in pairs}
Required(pairs) == {<<p>> : p \in pairs}

\* Every form that fills its slots in order.
RECURSIVE forms_of(_)
forms_of(slots) ==
    IF Len(slots) = 0 THEN {<<>>}
    ELSE {p \o r : p \in Head(slots), r \in forms_of(Tail(slots))}

ScoreSlots ==
    << Required({<<A \o <<"_", "1">>, v>> : v \in {<<"1">>, <<"2">>}}),
       Required({<<B \o <<"_", "1">>, v>> : v \in {<<"1">>, <<"2">>}}),
       Optional({<<C_AND_D \o <<"_", "1">>, v>> : v \in {<<"2">>}}) >>

ProfileSlots ==
    << Optional({<<A \o <<"_", "1">>, v>> :
            v \in {<<"0">>, <<"1">>, <<"3">>, <<"5">>}}),
       Optional({<<B \o <<"_", "1">>, v>> :
            v \in {<<"-", "2">>, <<"3">>, <<"5">>}}),
       Optional({<<C \o <<"_", "1">>, v>> :
            v \in {<<"1">>, <<"5">>, <<"n", "/", "a">>}}) >>

KeySlots ==
    << Optional({<<G_AMP_D \o <<"_", "1">>, <<"4">>>>,
                 <<G_AMP_D \o <<"_", "1">>, <<"o", "k">>>>}),
       Optional({<<G_AND_D \o <<"_", "2">>, <<"2">>>>}),
       Optional({<<T \o <<"_", "0">>, <<"5">>>>, <<T \o <<"_", "3">>, <<"5">>>>}),
       Optional({<<T \o <<"_", "x">>, <<"3">>>>}),
       Optional({<<T, <<"1">>>>, <<<<"X", "_", "1">>, <<"3">>>>}) >>

Forms(slots, names) ==
    {[respondent_name |-> n, fields |-> f] : n \in names, f \in forms_of(slots)}

ScoreForms == Forms(ScoreSlots, {Absent, Field(<<>>)})

ProfileForms == Forms(ProfileSlots, {Absent, Field(<<>>)})

KeyForms ==
    Forms(KeySlots, {Absent, Field(<<>>)})
        \cup {[respondent_name |-> Field(<<"Z">>), fields |-> <<>>]}

AdminKeys == {ADMIN_KEY, "letmein"}

----------------------------------------------------------------------------
(* Specifications *)

NoResponse == [route |-> "none", status |-> 0]

InitScore ==
    /\ SURVEY_DATA \in ScoreCategorySets
    /\ survey_responses = <<>>
    /\ response = NoResponse

InitProfile ==
    /\ SURVEY_DATA \in ProfileCategorySets
    /\ survey_responses = <<>>
    /\ response = NoResponse

InitKeys ==
    /\ SURVEY_DATA \in KeyCategorySets
    /\ survey_responses = <<>>
    /\ response = NoResponse

SubmitScore ==
    /\ Len(survey_responses) < MaxScoreRows
    /\ \E form \in ScoreForms : submit(form)

SubmitProfile ==
    /\ Len(survey_responses) < MaxProfileRows
    /\ \E form \in ProfileForms : submit(form)

SubmitKeys ==
    /\ Len(survey_responses) < MaxKeyRows
    /\ \E form \in KeyForms : submit(form)

SubmitDatabaseError == submit_database_error

Admin == \E key \in AdminKeys : admin(key)

Report == \E key \in AdminKeys : report(key)

AnalyzeAggregate == \E generated \in BOOLEAN : analyze_aggregate(generated)

AnalyzeResponse ==
    \E response_id \in 1..(Len(survey_responses) + 1), generated \in BOOLEAN :
        analyze_response(response_id, generated)

Routes ==
    \/ SubmitDatabaseError
    \/ Admin
    \/ Report
    \/ AnalyzeAggregate
    \/ AnalyzeResponse

NextScore == SubmitScore \/ Routes
NextProfile == SubmitProfile \/ Routes
NextKeys == SubmitKeys \/ Routes

SpecScore == InitScore /\ [][NextScore]_vars
SpecProfile == InitProfile /\ [][NextProfile]_vars
SpecKeys == InitKeys /\ [][NextKeys]_vars

----------------------------------------------------------------------------
(* Views of the last response used by the properties *)

AdminOk == response.route = "admin" /\ ~response.denied

ReportOk ==
    response.route = "report" /\ ~response.denied /\ ~response.nodata

AggregateOk ==
    response.route = "analyze_aggregate" /\ response.status # 404

Range(seq) == {seq[i] : i \in 1..Len(seq)}

\* The statistics of every record shown by /admin
AdminResults ==
    IF AdminOk
    THEN {[lists |-> r.cat_totals,
           averages |-> r.stats.averages,
           overall |-> r.stats.overall,
           strength |-> r.stats.strength,
           weakness |-> r.stats.weakness] : r \in Range(response.responses)}
    ELSE {}

\* The aggregate statistics shown by /report
ReportResults ==
    IF ReportOk
    THEN {[lists |-> response.category_scores,
           averages |-> response.averages,
           overall |-> response.overall,
           strength |-> response.strongest,
           weakness |-> response.weakest]}
    ELSE {}

ScoredResults == AdminResults \cup ReportResults

\* The categories (positions in the Category Set) with a collected value
WithValues(lists) == {i \in 1..Len(lists) : Len(lists[i][2]) > 0}

\* The categories the strength/weakness resolution treats as active
Active(averages) == {i \in 1..Len(averages) : averages[i][2] > 0}

Abs(x) == IF x < 0 THEN 0 - x ELSE x

\* h hundredths is n/d rounded to two decimals (ties to even)
IsRounded(h, n, d) ==
    /\ 2 * Abs(100 * n - h * d) <= d
    /\ 2 * Abs(100 * n - h * d) = d => h % 2 = 0

RECURSIVE Product(_)
Product(seq) == IF Len(seq) = 0 THEN 1 ELSE Head(seq) * Product(Tail(seq))

\* Product of the lengths of the non-empty lists
LenProduct(lists) ==
    Product([i \in 1..Len(lists) |->
                IF Len(lists[i][2]) > 0 THEN Len(lists[i][2]) ELSE 1])

\* Sum of the exact category means, times LenProduct(lists)
MeansNumerator(lists) ==
    sum([i \in 1..Len(lists) |->
            IF Len(lists[i][2]) > 0
            THEN sum(lists[i][2]) * (LenProduct(lists) \div Len(lists[i][2]))
            ELSE 0])

\* Sum of the reported (rounded) averages of the categories with a value
ReportedSum(r) ==
    sum([i \in 1..Len(r.averages) |->
            IF i \in WithValues(r.lists) THEN r.averages[i][2] ELSE 0])

\* Two sets of lists have the same exact mean in every category
SameMeans(l1, l2) ==
    /\ Len(l1) = Len(l2)
    /\ \A i \in 1..Len(l1) :
        /\ (Len(l1[i][2]) > 0) = (Len(l2[i][2]) > 0)
        /\ sum(l1[i][2]) * Len(l2[i][2]) = sum(l2[i][2]) * Len(l1[i][2])

----------------------------------------------------------------------------
(* C1 *)

\* h hundredths is n/d rounded to two decimals, whichever way a tie goes
IsRoundedAnyTie(h, n, d) == 2 * Abs(100 * n - h * d) <= d

\* C1 as stated: the overall score is the mean, rounded to 2 decimals, of the
\* averages reported in the averages mapping (themselves rounded), over the
\* categories with a collected value, and 0 when there is none.
C1_OverallIsMeanOfReportedAverages ==
    \A r \in ScoredResults :
        IF WithValues(r.lists) = {} THEN r.overall = 0
        ELSE IsRoundedAnyTie(r.overall, ReportedSum(r),
                             100 * Cardinality(WithValues(r.lists)))

\* C1 amended: the overall score is the mean of the exact (unrounded)
\* category means over the categories with a collected value, rounded once to
\* 2 decimals, and 0 when there is none; a batch and a single record with the
\* same category means get the same overall score.
C1_OverallIsMeanOfExactMeans ==
    /\ \A r \in ScoredResults :
        IF WithValues(r.lists) = {} THEN r.overall = 0
        ELSE IsRounded(r.overall, MeansNumerator(r.lists),
                       LenProduct(r.lists) * Cardinality(WithValues(r.lists)))
    /\ ReportOk =>
        \A row \in Range(survey_responses) :
            SameMeans(response.category_scores, admin_cat_totals(row.answers))
                => response.overall =
                        admin_overall(admin_cat_totals(row.answers))

\* Three categories with different numbers of values, where rounding the
\* category averages first would have given another overall score.
C1_Witness ==
    /\ ReportOk
    /\ Cardinality(WithValues(response.category_scores)) = 3
    /\ \E i, j \in 1..3 : Len(response.category_scores[i][2])
                            > Len(response.category_scores[j][2])
    /\ ~IsRoundedAnyTie(response.overall,
                        ReportedSum([lists |-> response.category_scores,
                                     averages |-> response.averages]), 300)

----------------------------------------------------------------------------
(* C10 *)

\* C10: the three scoring paths agree.  /report and /analyze_aggregate compute
\* the same averages mapping for every non-empty batch, and for a batch of one
\* record that mapping and the overall score of /report are the ones /admin
\* computes for the record.
C10_ScoringPathsAgree ==
    /\ ReportOk =>
        /\ response.averages = aggregate_final_averages(
                                    aggregate_category_scores(survey_responses))
        /\ Len(survey_responses) = 1 =>
            /\ response.averages =
                    admin_stats(survey_responses[1].answers).averages
            /\ response.overall =
                    admin_stats(survey_responses[1].answers).overall
    /\ AggregateOk =>
        /\ response.averages = report_final_averages(
                                    report_category_scores(survey_responses))
        /\ Len(survey_responses) = 1 =>
            response.averages =
                    admin_stats(survey_responses[1].answers).averages
    /\ AdminOk =>
        \A r \in Range(response.responses) :
            LET batch == <<[answers |-> r.answers]>>
            IN  /\ r.stats.averages =
                        report_final_averages(report_category_scores(batch))
                /\ r.stats.overall =
                        report_overall_score(report_category_scores(batch))
                /\ r.stats.averages = aggregate_final_averages(
                                            aggregate_category_scores(batch))

\* /analyze_aggregate has answered for a batch of several records in which a
\* key spelled with "and" was counted and an average needed rounding.
C10_Witness ==
    /\ AggregateOk
    /\ Len(survey_responses) > 1
    /\ Len(response.category_scores[3][2]) > 0
    /\ \E i \in 1..Len(response.averages) :
            response.averages[i][2] * Len(response.category_scores[i][2])
                # 100 * sum(response.category_scores[i][2])

----------------------------------------------------------------------------
(* Category resolution as the specification states it *)

CategoryNames == {SURVEY_DATA[i][1] : i \in 1..Len(SURVEY_DATA)}

Unresolvable == [found |-> FALSE, name |-> <<>>]
ResolvedTo(name) == [found |-> TRUE, name |-> name]

\* The label of a key: what precedes its last underscore
Label(key) ==
    LET u == {i \in 1..Len(key) : key[i] = "_"}
    IN  SubSeq(key, 1, (CHOOSE i \in u : \A j \in u : j <= i) - 1)

\* What follows the last underscore
Suffix(key) ==
    LET u == {i \in 1..Len(key) : key[i] = "_"}
    IN  SubSeq(key, (CHOOSE i \in u : \A j \in u : j <= i) + 1, Len(key))

Resolved(key) ==
    IF \A i \in 1..Len(key) : key[i] # "_" THEN Unresolvable
    ELSE IF Label(key) \in CategoryNames THEN ResolvedTo(Label(key))
    ELSE IF replace(Label(key), AND, AMP) \in CategoryNames
         THEN ResolvedTo(replace(Label(key), AND, AMP))
         ELSE Unresolvable

RECURSIVE AllEntries(_)
AllEntries(rows) ==
    IF Len(rows) = 0 THEN <<>>
    ELSE Head(rows).answers \o AllEntries(Tail(rows))

\* The integer values of the entries that resolve to the category, in order
ExpectedList(name, entries) ==
    LET Counts(e) == e[2].isint /\ Resolved(e[1]) = ResolvedTo(name)
        counted == SelectSeq(entries, Counts)
    IN  [i \in 1..Len(counted) |-> counted[i][2].n]

ExpectedLists(entries) ==
    [i \in 1..Len(SURVEY_DATA) |->
        <<SURVEY_DATA[i][1], ExpectedList(SURVEY_DATA[i][1], entries)>>]

----------------------------------------------------------------------------
(* C4 *)

\* C4: in /admin, /report and /analyze_aggregate every scanned entry with an
\* integer value whose label is a category name, or becomes one when " and "
\* is replaced by " & ", is appended to the list of that one category, the
\* exact name first; every other entry changes no list.
C4_EntriesCollectedByResolvedCategory ==
    /\ AdminOk =>
        \A r \in Range(response.responses) :
            r.cat_totals = ExpectedLists(r.answers)
    /\ ReportOk =>
        response.category_scores = ExpectedLists(AllEntries(survey_responses))
    /\ AggregateOk =>
        response.category_scores = ExpectedLists(AllEntries(survey_responses))

\* The Category Set has both spellings, and the scanned record has an exact
\* "G and D" key, a key without underscore or with an unknown label, and a
\* text answer under a valid key.
C4_Witness ==
    /\ ReportOk
    /\ {G_AND_D, G_AMP_D} \subseteq CategoryNames
    /\ \E e \in Range(AllEntries(survey_responses)) :
            e[2].isint /\ Resolved(e[1]) = ResolvedTo(G_AND_D)
    /\ \E e \in Range(AllEntries(survey_responses)) :
            e[2].isint /\ ~Resolved(e[1]).found
    /\ \E e \in Range(AllEntries(survey_responses)) :
            ~e[2].isint /\ Resolved(e[1]).found
    /\ Len(get(response.category_scores, G_AND_D)) > 0

----------------------------------------------------------------------------
(* C9 *)

\* The 1-based question index a key names in its category, 0 when its suffix
\* is not one
QuestionIndex(key) ==
    LET suffix == Suffix(key)
        questions == get(SURVEY_DATA, Resolved(key).name)
    IN  IF /\ Len(suffix) > 0
           /\ \A i \in 1..Len(suffix) : suffix[i] \in Digits
           /\ digits_value(suffix) \in 1..Len(questions)
        THEN digits_value(suffix)
        ELSE 0

RECURSIVE ExpectedLines(_)
ExpectedLines(answers) ==
    IF Len(answers) = 0 THEN <<>>
    ELSE LET key == Head(answers)[1]
             val == Head(answers)[2]
         IN  IF val.isint /\ Resolved(key).found /\ QuestionIndex(key) > 0
             THEN <<[category |-> Resolved(key).name,
                     question_text |-> get(SURVEY_DATA, Resolved(key).name)
                                            [QuestionIndex(key)],
                     val |-> val.n]>> \o ExpectedLines(Tail(answers))
             ELSE ExpectedLines(Tail(answers))

AnalyzedResponse ==
    response.route = "analyze_response" /\ response.status # 404

\* C9: /analyze_response never raises while it builds the prompt data, and
\* the prompt data has one line for each integer entry whose key resolves to
\* a category and names a 1-based question index of it, and no other line.
C9_UnusableKeysSkippedSilently ==
    AnalyzedResponse =>
        /\ ~response.raised
        /\ response.prompt_data =
                ExpectedLines(survey_responses[response.response_id].answers)

----------------------------------------------------------------------------
(* C2 *)

FlatProfileLabels == {ALL_CATEGORIES, NONE, BALANCED_PROFILE}

IsFlat(averages) ==
    \A i, j \in Active(averages) : averages[i][2] = averages[j][2]

\* C2: in the per-record statistics of /admin, when the active categories
\* (average > 0) all have the same average s, strength and weakness are
\* ("All Categories", 5.0) and ("None", 0) for s = 5, ("None", 0) and
\* ("All Categories", 1.0) for s = 1, and ("Balanced Profile", s) twice for
\* any other s; when the active averages differ, no such label is produced.
C2_FlatProfileLabels ==
    \A r \in AdminResults :
        Active(r.averages) # {} =>
            IF IsFlat(r.averages)
            THEN LET s == r.averages[CHOOSE i \in Active(r.averages) : TRUE][2]
                 IN  IF s = 500
                     THEN /\ r.strength = <<ALL_CATEGORIES, 500>>
                          /\ r.weakness = <<NONE, 0>>
                     ELSE IF s = 100
                     THEN /\ r.strength = <<NONE, 0>>
                          /\ r.weakness = <<ALL_CATEGORIES, 100>>
                     ELSE /\ r.strength = <<BALANCED_PROFILE, s>>
                          /\ r.weakness = <<BALANCED_PROFILE, s>>
            ELSE /\ r.strength[1] \notin FlatProfileLabels
                 /\ r.weakness[1] \notin FlatProfileLabels

\* A record whose two active categories both average 5
C2_Witness ==
    \E r \in AdminResults :
        /\ Cardinality(Active(r.averages)) = 2
        /\ \A i \in Active(r.averages) : r.averages[i][2] = 500
        /\ r.strength = <<ALL_CATEGORIES, 500>>

----------------------------------------------------------------------------
(* C3 *)

\* C3: when exactly one category has collected values, strength and weakness
\* are both that category with its average, in /admin and in /report.
C3_SingleCategoryReportedByName ==
    \A r \in ScoredResults :
        Cardinality(WithValues(r.lists)) = 1 =>
            LET i == CHOOSE i \in WithValues(r.lists) : TRUE
            IN  /\ r.strength = r.averages[i]
                /\ r.weakness = r.averages[i]

----------------------------------------------------------------------------
(* C5 *)

CategoryOrder == [i \in 1..Len(SURVEY_DATA) |-> SURVEY_DATA[i][1]]

\* C5: in every computed result the averages mapping has the Category Set's
\* names in order (and /admin's categories_list and scores_list match it), a
\* category without a collected value has average 0 and is never named as
\* strength or weakness, and when no category has a value the overall score
\* is 0 and strength = weakness = ("N/A", 0).
C5_EmptyCategoriesAndNoData ==
    /\ \A r \in ScoredResults :
        /\ [i \in 1..Len(r.averages) |-> r.averages[i][1]] = CategoryOrder
        /\ \A i \in 1..Len(r.averages) :
            i \notin WithValues(r.lists) =>
                /\ r.averages[i][2] = 0
                /\ r.strength[1] # r.averages[i][1]
                /\ r.weakness[1] # r.averages[i][1]
        /\ WithValues(r.lists) = {} =>
            /\ r.overall = 0
            /\ r.strength = <<NA, 0>>
            /\ r.weakness = <<NA, 0>>
    /\ AdminOk =>
        \A row \in Range(response.responses) :
            /\ row.stats.categories_list = CategoryOrder
            /\ row.stats.scores_list =
                    [i \in 1..Len(row.stats.averages) |->
                        row.stats.averages[i][2]]

----------------------------------------------------------------------------
(* C6 *)

\* C6: the strongest and weakest pairs of /report are the pairs /admin's
\* strength/weakness logic yields for the same averages mapping.
C6_ReportUsesAdminResolution ==
    ReportOk =>
        <<response.strongest, response.weakest>> =
            admin_strength_weakness(response.averages)

----------------------------------------------------------------------------
(* C7 *)

\* C7: when the active averages differ, strength is the first category in
\* Category Set order among those with the highest average and weakness the
\* last category in that order among those with the lowest; they are two
\* different categories and strength scores higher.
C7_TieBreakByCategoryOrder ==
    \A r \in ScoredResults :
        ~IsFlat(r.averages) =>
            LET act == Active(r.averages)
                top == {i \in act : \A j \in act :
                            r.averages[j][2] <= r.averages[i][2]}
                bottom == {i \in act : \A j \in act :
                            r.averages[j][2] >= r.averages[i][2]}
                first == CHOOSE i \in top : \A j \in top : i <= j
                last == CHOOSE i \in bottom : \A j \in bottom : j <= i
            IN  /\ r.strength = r.averages[first]
                /\ r.weakness = r.averages[last]
                /\ r.strength[1] # r.weakness[1]
                /\ r.strength[2] > r.weakness[2]

\* A record where two categories tie for the highest average and a third is
\* lower, in a Category Set that does not list them alphabetically
C7_Witness ==
    \E r \in AdminResults :
        /\ SURVEY_DATA[1][1] = C
        /\ Cardinality(Active(r.averages)) = 3
        /\ \E i, j \in Active(r.averages) :
            /\ i < j
            /\ r.averages[i][2] = r.averages[j][2]
            /\ r.strength = r.averages[i]
            /\ r.weakness[2] < r.averages[i][2]

----------------------------------------------------------------------------
(* C8 *)

\* C8: the categories active in the strength/weakness resolution
\* (average > 0) are exactly the categories with a collected value.
C8_ActiveIffHasValues ==
    \A r \in ScoredResults : Active(r.averages) = WithValues(r.lists)

====
